---- MODULE Spec2Model ----
(***************************************************************************)
(* Model of src/player.rs: the Player handle, the shared PlayerState       *)
(* behind Arc<(Mutex, Condvar)>, the mpsc command channel and the worker   *)
(* loop PlayerInternal::run.                                               *)
(*                                                                         *)
(* Every worker action is one critical section of run (the code between a  *)
(* lock() and the drop of its guard) together with the unlocked code that  *)
(* follows it up to the next lock(); observers and the clock interleave    *)
(* between these actions.  Time and positions are counted in packet        *)
(* durations.  The collaborators (vorbis decoder, portaudio stream,        *)
(* session) are modelled by their interface: a decoder is a position in a  *)
(* track of TrackLen packets, the stream is started or stopped, and every  *)
(* call that run() unwraps may fail where the interface allows it.         *)
(***************************************************************************)
EXTENDS Integers, Sequences, FiniteSets, TLC

\* ---- bounds --------------------------------------------------------------
MaxCmds == 3        \* commands the callers send in one behaviour
MaxQueue == 2       \* commands pending in the channel at once
MaxTime == 1        \* util::now_ms() ranges over 0..MaxTime
TrackLen == 2       \* packets in a track
Granule == 2        \* seek granularity of an inexact decoder

\* ---- PlayStatus (spirc::PlayStatus) -----------------------------------------
kPlayStatusStop == "Stopped"
kPlayStatusLoading == "Loading"
kPlayStatusPlay == "Playing"
kPlayStatusPause == "Paused"

PlayStatus == {kPlayStatusStop, kPlayStatusLoading, kPlayStatusPlay, kPlayStatusPause}

\* ---- PlayerCommand ----------------------------------------------------------
\* the positions callers ask for: the start and the last packet of a track
Positions == {0, TrackLen - 1}

Cmd(op, play, pos) == [op |-> op, play |-> play, pos |-> pos]

NoCmd == Cmd("None", FALSE, 0)

PlayerCommand ==
    {Cmd("Load", play, pos) : play \in BOOLEAN, pos \in Positions}
    \cup {Cmd("Seek", FALSE, pos) : pos \in Positions}
    \cup {Cmd("Play", FALSE, 0), Cmd("Pause", FALSE, 0), Cmd("Stop", FALSE, 0)}

\* ---- decoder (Option<vorbis::Decoder>) --------------------------------------
NoDecoder == [live |-> FALSE, sid |-> 0, pos |-> 0]

Decoder(sid, pos) == [live |-> TRUE, sid |-> sid, pos |-> pos]

\* decoder.time_seek(ms): the position the decoder lands on, exact or
\* rounded down to its granule.
time_seek(ms) == {ms, ms - (ms % Granule)}

\* (decoder.time_tell() * 1000f64) as u32: the decoder's position; tracks are
\* far shorter than the u32 range
time_tell(d) == d.pos

\* the observer has no earlier read to compare with
NoRead == <<>>

VARIABLES
    status,                 \* PlayerState.status
    position_ms,            \* PlayerState.position_ms
    position_measured_at,   \* PlayerState.position_measured_at
    update_time,            \* PlayerState.update_time
    poisoned,               \* the state Mutex is poisoned (a panic under the guard)
    commands,               \* the mpsc channel, oldest command first
    handle,                 \* "alive" | "dropped": the Player and its Sender
    decoder,                \* run()'s local `decoder`
    streamActive,           \* the portaudio stream is started
    pc,                     \* worker position: "recv" | "loading" | "decode" | "panicked"
    cur,                    \* the last command try_recv() returned
    now,                    \* util::now_ms()
    processed,              \* history: commands received by the worker
    startCalls,             \* history: stream.start() calls
    stopCalls,              \* history: stream.stop() calls
    wrote,                  \* sid of the packet the last worker step wrote, 0 if none
    outcome,                \* what the last worker step's packet pull and write returned:
                            \* "Ok" | "OutputUnderflowed" | "Hole", "none" if it did neither
    guarded,                \* the device and decoder calls the last worker step made
                            \* while it held a MutexGuard of the state
    statusHist,             \* history: statuses observable at lock release, changes only
    panicCause,             \* why the worker panicked, "none" if it has not
    phase,                  \* history: "quiet" since a Load without autoplay completed,
                            \* "autoloaded" once a Load with autoplay followed it,
                            \* "none" before the first and after a Play
    obsPc,                  \* observer: "idle" | "waiting" | "panicked"
    pendingUpdate,          \* history: worker mutated the state while the observer waits
    read2                   \* observer: <<effective position>> of its last read while
                            \* Playing, <<>> if none since the last Seek or Load

shared == <<status, position_ms, position_measured_at, update_time, poisoned>>
worker == <<decoder, streamActive, pc, cur>>
hist == <<processed, startCalls, stopCalls, wrote, outcome, guarded, statusHist,
          panicCause, phase>>
obs == <<obsPc, pendingUpdate, read2>>
vars == <<shared, worker, hist, obs, commands, handle, now>>

\* Player::new (lines 44-67) and the locals of run (lines 76-86)
Init ==
    /\ status = kPlayStatusStop
    /\ position_ms = 0
    /\ position_measured_at = 0
    /\ update_time = 0
    /\ poisoned = FALSE
    /\ commands = <<>>
    /\ handle = "alive"
    /\ decoder = NoDecoder
    /\ streamActive = FALSE
    /\ pc = "recv"
    /\ cur = NoCmd
    /\ now = 0
    /\ processed = 0
    /\ startCalls = 0
    /\ stopCalls = 0
    /\ wrote = 0
    /\ outcome = "none"
    /\ guarded = {}
    /\ statusHist = <<kPlayStatusStop>>
    /\ panicCause = "none"
    /\ phase = "none"
    /\ obsPc = "idle"
    /\ pendingUpdate = FALSE
    /\ read2 = NoRead

\* ---- helpers for the history variables ----------------------------------
Observe(h, s) == IF h[Len(h)] = s THEN h ELSE Append(h, s)

\* the worker wrote the shared state: an observer blocked in wait_update
\* now has an update it has not seen.  run() calls no notify_one/notify_all.
Mutated == pendingUpdate' = (pendingUpdate \/ obsPc = "waiting")

\* ---- callers ---------------------------------------------------------------
\* Player::command (lines 69-71) through load/play/pause/stop/seek (188-207);
\* send() fails, and the caller's unwrap() panics, once the worker is gone
command(cmd) ==
    /\ handle = "alive"
    /\ pc # "panicked"
    /\ processed + Len(commands) < MaxCmds
    /\ Len(commands) < MaxQueue
    /\ commands' = Append(commands, cmd)
    /\ UNCHANGED <<shared, worker, hist, obs, handle, now>>

Send == \E cmd \in PlayerCommand : command(cmd)

\* drop of the Player (lines 12-19): the Sender is dropped, then the
\* JoinGuard joins the worker.  Observers borrow the Player, so none is
\* inside wait_update.
DropPlayer ==
    /\ handle = "alive"
    /\ obsPc # "waiting"
    /\ handle' = "dropped"
    /\ read2' = NoRead
    /\ UNCHANGED <<shared, worker, hist, obsPc, pendingUpdate, commands, now>>

\* util::now_ms() advances
Tick ==
    /\ now < MaxTime
    /\ now' = now + 1
    /\ UNCHANGED <<shared, worker, hist, obs, commands, handle>>

\* ---- worker: PlayerInternal::run -----------------------------------------
\* mutant of Recv: the newest pending command is taken for the oldest
Recv_Newest(op) ==
    /\ pc = "recv"
    /\ commands # <<>>
    /\ Head(commands).op = op
    /\ cur' = commands[Len(commands)]
    /\ processed' = processed + 1

\* try_recv() returned Ok(cmd)
Recv(op) ==
    /\ pc = "recv"
    /\ commands # <<>>
    /\ Head(commands).op = op
    /\ cur' = Head(commands)
    /\ processed' = processed + 1

\* a panic unwinds run(): the decoder, the stream and the Receiver (with the
\* commands still in the channel) are dropped
Panic(cause) ==
    /\ pc' = "panicked"
    /\ panicCause' = cause
    /\ decoder' = NoDecoder
    /\ streamActive' = FALSE
    /\ commands' = <<>>

\* mutant of StopIfPlaying: the stream is left running
StopIfPlaying_Never ==
    UNCHANGED <<streamActive, stopCalls>>

\* mutant of StopIfPlaying: the stream is stopped whatever the status
StopIfPlaying_Always ==
    /\ streamActive' = FALSE
    /\ stopCalls' = stopCalls + 1

\* if h.status == kPlayStatusPlay { stream.stop() } (lines 93-95, 148-150)
StopIfPlaying ==
    IF status = kPlayStatusPlay
      THEN streamActive' = FALSE /\ stopCalls' = stopCalls + 1
      ELSE UNCHANGED <<streamActive, stopCalls>>

\* mutant of SetLoading: the transient Loading status is not written
SetLoading_KeepStatus(position) ==
    /\ status' = status
    /\ position_ms' = position
    /\ position_measured_at' = now
    /\ update_time' = now

\* the writes of the Load arm's first critical section (lines 96-99)
SetLoading(position) ==
    /\ status' = kPlayStatusLoading
    /\ position_ms' = position
    /\ position_measured_at' = now
    /\ update_time' = now

\* Load arm, first critical section (lines 90-100)
RecvLoad ==
    /\ Recv("Load")
    /\ commands' = Tail(commands)
    /\ StopIfPlaying
    /\ SetLoading(Head(commands).pos)
    /\ statusHist' = Observe(statusHist, status')
    /\ pc' = "loading"
    /\ wrote' = 0
    /\ outcome' = "none"
    /\ guarded' = IF status = kPlayStatusPlay THEN {"stream.stop"} ELSE {}
    /\ phase' = IF phase # "none" /\ Head(commands).play THEN "autoloaded" ELSE phase
    /\ Mutated
    /\ read2' = NoRead
    /\ UNCHANGED <<poisoned, decoder, startCalls, panicCause, obsPc, handle, now>>

\* mutant of SetLoaded: the stream is started whatever `play` says
SetLoaded_AlwaysPlay(play, position) ==
    /\ streamActive' = TRUE
    /\ startCalls' = startCalls + 1
    /\ status' = kPlayStatusPlay
    /\ position_ms' = position
    /\ position_measured_at' = now
    /\ update_time' = now

\* the Load arm's second critical section (lines 112-121)
SetLoaded(play, position) ==
    /\ IF play
         THEN /\ streamActive' = TRUE
              /\ startCalls' = startCalls + 1
              /\ status' = kPlayStatusPlay
         ELSE /\ UNCHANGED <<streamActive, startCalls>>
              /\ status' = kPlayStatusPause
    /\ position_ms' = position
    /\ position_measured_at' = now
    /\ update_time' = now

\* Load arm, fetch and build (lines 102-110) and second critical section
\* (lines 112-122); the guard is dropped at the end of the arm
LoadDone ==
    /\ pc = "loading"
    /\ \E p \in time_seek(cur.pos) :
         decoder' = Decoder(processed, p)
    /\ SetLoaded(cur.play, cur.pos)
    /\ statusHist' = Observe(statusHist, status')
    /\ pc' = "decode"
    /\ wrote' = 0
    /\ outcome' = "none"
    /\ guarded' = IF cur.play THEN {"stream.start"} ELSE {}
    /\ phase' = IF cur.play THEN phase ELSE "quiet"
    /\ Mutated
    /\ read2' = NoRead
    /\ UNCHANGED <<poisoned, cur, processed, stopCalls, panicCause, obsPc,
                   commands, handle, now>>

\* Load arm, an unwrap() of lines 102-110 fails: metadata wait, no file,
\* decoder construction or the initial time_seek
LoadPanic ==
    /\ pc = "loading"
    /\ Panic("load_failed")
    /\ wrote' = 0
    /\ outcome' = "none"
    /\ guarded' = {}
    /\ UNCHANGED <<shared, cur, processed, startCalls, stopCalls, statusHist,
                   phase, obs, handle, now>>

\* mutant of SetSeeked: the time of the measurement is not recorded
SetSeeked_StaleTime ==
    /\ position_ms' = time_tell(decoder')
    /\ position_measured_at' = position_measured_at
    /\ update_time' = now

\* the writes of the Seek arm after the seek (lines 127-129)
SetSeeked ==
    /\ position_ms' = time_tell(decoder')
    /\ position_measured_at' = now
    /\ update_time' = now

\* Seek arm (lines 124-130); the guard h is held over the decoder calls, so
\* a failed unwrap() poisons the Mutex
RecvSeek ==
    /\ Recv("Seek")
    /\ wrote' = 0
    /\ outcome' = "none"
    /\ \/ /\ ~decoder.live
          /\ Panic("no_session")
          /\ poisoned' = TRUE
          /\ guarded' = {}
          /\ UNCHANGED <<status, position_ms, position_measured_at, update_time,
                         statusHist, pendingUpdate, read2>>
       \/ /\ decoder.live
          /\ Panic("decoder_error")
          /\ poisoned' = TRUE
          /\ guarded' = {"time_seek"}
          /\ UNCHANGED <<status, position_ms, position_measured_at, update_time,
                         statusHist, pendingUpdate, read2>>
       \/ /\ decoder.live
          /\ \E p \in time_seek(Head(commands).pos) :
               decoder' = [decoder EXCEPT !.pos = p]
          /\ commands' = Tail(commands)
          /\ guarded' = {"time_seek", "time_tell"}
          /\ SetSeeked
          /\ pc' = "decode"
          /\ Mutated
          /\ read2' = NoRead
          /\ UNCHANGED <<status, poisoned, streamActive, statusHist, panicCause>>
    /\ UNCHANGED <<startCalls, stopCalls, phase, obsPc, handle, now>>

\* mutant of StartStream: the device is not started
StartStream_Skip ==
    UNCHANGED <<streamActive, startCalls>>

\* stream.start() of the Play arm (line 137)
StartStream ==
    /\ streamActive' = TRUE
    /\ startCalls' = startCalls + 1

\* Play arm (lines 131-138)
RecvPlay ==
    /\ Recv("Play")
    /\ commands' = Tail(commands)
    /\ status' = kPlayStatusPlay
    /\ update_time' = now
    /\ StartStream
    /\ statusHist' = Observe(statusHist, kPlayStatusPlay)
    /\ pc' = "decode"
    /\ wrote' = 0
    /\ outcome' = "none"
    /\ guarded' = {"stream.start"}
    /\ phase' = "none"
    /\ Mutated
    /\ UNCHANGED <<position_ms, position_measured_at, poisoned, decoder, stopCalls,
                   panicCause, obsPc, read2, handle, now>>

\* mutant of StopStream: the device is left running
StopStream_Skip ==
    UNCHANGED <<streamActive, stopCalls>>

\* stream.stop() of the Pause arm (line 144)
StopStream ==
    /\ streamActive' = FALSE
    /\ stopCalls' = stopCalls + 1

\* Pause arm (lines 139-145)
RecvPause ==
    /\ Recv("Pause")
    /\ commands' = Tail(commands)
    /\ status' = kPlayStatusPause
    /\ update_time' = now
    /\ StopStream
    /\ statusHist' = Observe(statusHist, kPlayStatusPause)
    /\ pc' = "decode"
    /\ wrote' = 0
    /\ outcome' = "none"
    /\ guarded' = {"stream.stop"}
    /\ Mutated
    /\ UNCHANGED <<position_ms, position_measured_at, poisoned, decoder, startCalls,
                   panicCause, phase, obsPc, read2, handle, now>>

\* mutant of DropDecoder: the session outlives the Stop
DropDecoder_Keep ==
    UNCHANGED decoder

\* decoder = None of the Stop arm (line 154)
DropDecoder ==
    decoder' = NoDecoder

\* mutant of StopStatus: the Stop arm writes Stopped
StopStatus_Stopped ==
    kPlayStatusStop

\* the status the Stop arm writes (line 152)
StopStatus ==
    kPlayStatusPause

\* Stop arm (lines 146-155)
RecvStop ==
    /\ Recv("Stop")
    /\ commands' = Tail(commands)
    /\ StopIfPlaying
    /\ status' = StopStatus
    /\ update_time' = now
    /\ DropDecoder
    /\ statusHist' = Observe(statusHist, StopStatus)
    /\ pc' = "decode"
    /\ wrote' = 0
    /\ outcome' = "none"
    /\ guarded' = IF status = kPlayStatusPlay THEN {"stream.stop"} ELSE {}
    /\ Mutated
    /\ UNCHANGED <<position_ms, position_measured_at, poisoned, startCalls,
                   panicCause, phase, obsPc, read2, handle, now>>

\* try_recv() returned Err: the channel is empty, or empty and disconnected
\* (line 156)
RecvErr ==
    /\ pc = "recv"
    /\ commands = <<>>
    /\ pc' = "decode"
    /\ wrote' = 0
    /\ outcome' = "none"
    /\ guarded' = {}
    /\ UNCHANGED <<shared, decoder, streamActive, cur, processed, startCalls, stopCalls,
                   statusHist, panicCause, phase, obs, commands, handle, now>>

\* decode step, status is not Play (line 159)
DecodeIdle ==
    /\ pc = "decode"
    /\ status # kPlayStatusPlay
    /\ pc' = "recv"
    /\ wrote' = 0
    /\ outcome' = "none"
    /\ guarded' = {}
    /\ UNCHANGED <<shared, decoder, streamActive, cur, processed, startCalls,
                   stopCalls, statusHist, panicCause, phase, obs, commands, handle,
                   now>>

\* decode step, decoder is None: as_mut().unwrap() panics (line 160)
DecodeNoDecoder ==
    /\ pc = "decode"
    /\ status = kPlayStatusPlay
    /\ ~decoder.live
    /\ Panic("no_session")
    /\ wrote' = 0
    /\ outcome' = "none"
    /\ guarded' = {}
    /\ UNCHANGED <<shared, cur, processed, startCalls, stopCalls, statusHist,
                   phase, obs, handle, now>>

\* decode step, packets().next() is None at the end of the stream: unwrap()
\* panics (line 160)
DecodeEnd ==
    /\ pc = "decode"
    /\ status = kPlayStatusPlay
    /\ decoder.live
    /\ decoder.pos >= TrackLen
    /\ Panic("end_of_stream")
    /\ wrote' = 0
    /\ outcome' = "none"
    /\ guarded' = {}
    /\ UNCHANGED <<shared, cur, processed, startCalls, stopCalls, statusHist,
                   phase, obs, handle, now>>

\* lines 173-175: the position snapshot is refreshed from the decoder
Refresh ==
    /\ position_ms' = time_tell(decoder')
    /\ position_measured_at' = now
    /\ Mutated
    /\ UNCHANGED <<status, update_time, poisoned>>

\* decode step, a packet is pulled and written; the write returns Ok or
\* OutputUnderflowed (lines 159-168, 173-175)
DecodePacket ==
    /\ pc = "decode"
    /\ status = kPlayStatusPlay
    /\ decoder.live
    /\ decoder.pos < TrackLen
    /\ decoder' = [decoder EXCEPT !.pos = decoder.pos + 1]
    /\ wrote' = decoder.sid
    /\ \E r \in {"Ok", "OutputUnderflowed"} : outcome' = r
    /\ guarded' = {"time_tell"}
    /\ Refresh
    /\ pc' = "recv"
    /\ UNCHANGED <<streamActive, cur, processed, startCalls, stopCalls, statusHist,
                   panicCause, phase, obsPc, read2, commands, handle, now>>

\* mutant of DecodeHole: the gap is taken for any other VorbisError
DecodeHole_Fatal ==
    /\ pc = "decode"
    /\ status = kPlayStatusPlay
    /\ decoder.live
    /\ decoder.pos < TrackLen
    /\ Panic("decoder_error")
    /\ wrote' = 0
    /\ outcome' = "Hole"
    /\ guarded' = {}
    /\ UNCHANGED <<shared, cur, processed, startCalls, stopCalls, statusHist,
                   phase, obs, handle, now>>

\* decode step, the pull returns VorbisError::Hole: nothing is written
\* (lines 169, 173-175); the gap stands for one lost packet of the track
DecodeHole ==
    /\ pc = "decode"
    /\ status = kPlayStatusPlay
    /\ decoder.live
    /\ decoder.pos < TrackLen
    /\ decoder' = [decoder EXCEPT !.pos = decoder.pos + 1]
    /\ wrote' = 0
    /\ outcome' = "Hole"
    /\ guarded' = {"time_tell"}
    /\ Refresh
    /\ pc' = "recv"
    /\ UNCHANGED <<streamActive, cur, processed, startCalls, stopCalls, statusHist,
                   panicCause, phase, obsPc, read2, commands, handle, now>>

\* decode step, another VorbisError or another PaError: panic! (lines 166, 170)
DecodeError ==
    /\ pc = "decode"
    /\ status = kPlayStatusPlay
    /\ decoder.live
    /\ decoder.pos < TrackLen
    /\ \E cause \in {"decoder_error", "device_error"} :
         /\ Panic(cause)
         /\ wrote' = IF cause = "device_error" THEN decoder.sid ELSE 0
    /\ outcome' = "none"
    /\ guarded' = {}
    /\ UNCHANGED <<shared, cur, processed, startCalls, stopCalls, statusHist,
                   phase, obs, handle, now>>

WorkerStep ==
    \/ RecvLoad \/ LoadDone \/ LoadPanic
    \/ RecvSeek \/ RecvPlay \/ RecvPause \/ RecvStop \/ RecvErr
    \/ DecodeIdle \/ DecodeNoDecoder \/ DecodeEnd
    \/ DecodePacket \/ DecodeHole \/ DecodeError

\* ---- observer: the SpircDelegate readers -----------------------------------
\* effective position of a snapshot (position extrapolation of the reader)
EffectivePosition ==
    IF status = kPlayStatusPlay
      THEN position_ms + (now - position_measured_at)
      ELSE position_ms

\* state() (lines 209-211) and the reader's use of status() and position()
\* (lines 220-226); lock().unwrap() panics on a poisoned Mutex
state ==
    /\ handle = "alive"
    /\ obsPc = "idle"
    /\ IF poisoned
         THEN obsPc' = "panicked" /\ UNCHANGED read2
         ELSE /\ obsPc' = obsPc
              /\ IF status = kPlayStatusPlay
                   THEN read2' = <<EffectivePosition>>
                   ELSE read2' = NoRead
    /\ UNCHANGED <<shared, worker, hist, pendingUpdate, commands, handle, now>>

\* wait_update (lines 213-216): the caller blocks on the Condvar
wait_update ==
    /\ handle = "alive"
    /\ obsPc = "idle"
    /\ ~poisoned
    /\ obsPc' = "waiting"
    /\ pendingUpdate' = FALSE
    /\ read2' = NoRead
    /\ UNCHANGED <<shared, worker, hist, commands, handle, now>>

\* Condvar::wait returns without a notification (a spurious wakeup, the
\* only way out: nothing in run() notifies)
SpuriousWake ==
    /\ obsPc = "waiting"
    /\ obsPc' = IF poisoned THEN "panicked" ELSE "idle"
    /\ pendingUpdate' = FALSE
    /\ UNCHANGED <<shared, worker, hist, read2, commands, handle, now>>

Next ==
    \/ Send \/ DropPlayer \/ Tick
    \/ WorkerStep
    \/ state \/ wait_update \/ SpuriousWake

Spec == Init /\ [][Next]_vars

\* the worker thread is scheduled; callers, the clock and spurious wakeups
\* are not obliged to act
FairSpec == Spec /\ WF_vars(WorkerStep)

TypeOK ==
    /\ status \in PlayStatus
    /\ position_ms \in 0..TrackLen
    /\ position_measured_at \in 0..MaxTime
    /\ update_time \in 0..MaxTime
    /\ pc \in {"recv", "loading", "decode", "panicked"}
    /\ Len(commands) <= MaxQueue
    /\ cur \in PlayerCommand \cup {NoCmd}
    /\ outcome \in {"none", "Ok", "OutputUnderflowed", "Hole"}
    /\ guarded \subseteq {"stream.start", "stream.stop", "time_seek", "time_tell"}

\* ---- claims ----------------------------------------------------------------
Last(h) == h[Len(h)]

WorkerExited == pc \notin {"recv", "loading", "decode"}

\* the transitions of the table: any -> Loading on Load, Loading -> Playing or
\* Paused when the Load ends, Paused -> Playing on Play, Playing -> Paused on
\* Pause or Stop
TableTransition(s, t, c) ==
    \/ t = kPlayStatusLoading /\ c.op = "Load"
    \/ s = kPlayStatusLoading /\ t = kPlayStatusPlay /\ c.op = "Load" /\ c.play
    \/ s = kPlayStatusLoading /\ t = kPlayStatusPause /\ c.op = "Load" /\ ~c.play
    \/ s = kPlayStatusPause /\ t = kPlayStatusPlay /\ c.op = "Play"
    \/ s = kPlayStatusPlay /\ t = kPlayStatusPause /\ c.op \in {"Pause", "Stop"}

\* C1: every change of the shared status is a transition of the table; no
\* other change, such as Stopped -> Playing or Stopped -> Paused, happens.
C1_TableTransitionsOnly ==
    [][status' # status => TableTransition(status, status', cur')]_vars

\* a Seek, Play, Pause or Stop is about to be received with no decoder session
NoSessionCommand ==
    /\ pc = "recv"
    /\ commands # <<>>
    /\ Head(commands).op \in {"Seek", "Play", "Pause", "Stop"}
    /\ ~decoder.live

\* C2: a Seek, Play, Pause or Stop received while no decoder session exists is
\* not applied to the shared state or the device, the worker does not crash on
\* it, and the missing session is never used.
C2_NoSessionCommandRejected ==
    /\ [][NoSessionCommand /\ processed' = processed + 1
            => /\ pc' # "panicked"
               /\ UNCHANGED <<status, position_ms, position_measured_at, streamActive>>]_vars
    /\ [](panicCause # "no_session")

\* C3: an observer blocked in wait_update, after a mutation of the shared state
\* by the worker, eventually returns (the worker being alive).
C3_WaitUpdateReturns ==
    (obsPc = "waiting" /\ pendingUpdate) ~> (obsPc # "waiting" \/ pc = "panicked")

C5_EffectivePositionMonotonic ==
    [][read2 # NoRead /\ read2' # NoRead => read2'[1] >= read2[1]]_vars

\* C6 as stated: once a Load without autoplay has completed, the device is not
\* started and no packet is written until a Play is processed.
C6_QuietUntilPlay ==
    phase # "none" => ~streamActive /\ wrote = 0

\* C6 as amended: a Load without autoplay that completes leaves status Paused
\* and position_ms equal to its start position, and from then until a Play or
\* a Load with autoplay is processed the device is not started and no packet
\* is written.
C6_QuietUntilPlayOrAutoLoad ==
    /\ phase = "quiet" => ~streamActive /\ wrote = 0
    /\ phase = "quiet" /\ pc = "decode" /\ cur.op = "Load"
         => status = kPlayStatusPause /\ position_ms = cur.pos

\* a Load without autoplay at a position the decoder cannot seek to exactly
\* has just completed
C6_LoadedPaused ==
    /\ phase = "quiet"
    /\ pc = "decode"
    /\ cur.op = "Load"
    /\ cur.pos > 0
    /\ decoder.live
    /\ decoder.pos # cur.pos

\* C7: a Load first writes Loading, readable while the track is fetched, and
\* only then Playing (autoplay) or Paused; Load(A, true, 0) from the initial
\* state shows Stopped, Loading, Playing and starts the device exactly once.
C7_LoadingThenOutcome ==
    /\ pc = "loading" => status = kPlayStatusLoading /\ Last(statusHist) = status
    /\ pc = "decode" /\ cur.op = "Load"
         => /\ status = (IF cur.play THEN kPlayStatusPlay ELSE kPlayStatusPause)
            /\ Len(statusHist) >= 2
            /\ Last(statusHist) = status
            /\ statusHist[Len(statusHist) - 1] = kPlayStatusLoading
    /\ processed = 1 /\ cur = Cmd("Load", TRUE, 0) /\ pc \in {"recv", "decode"}
         => /\ statusHist = <<kPlayStatusStop, kPlayStatusLoading, kPlayStatusPlay>>
            /\ startCalls = 1

\* Load(A, true, 0) from the initial state has completed and packets play
C7_AutoplayLoaded ==
    /\ processed = 1
    /\ cur = Cmd("Load", TRUE, 0)
    /\ pc = "recv"
    /\ wrote # 0

\* C8: after the Player is dropped the worker loop eventually exits.
C8_DropTerminatesWorker ==
    (handle = "dropped") ~> WorkerExited

\* C9: a Load that fails leaves neither a crashed worker nor status Loading.
C9_LoadFailureRecovers ==
    [][pc = "loading" /\ pc' # "loading" /\ ~decoder'.live
         => pc' # "panicked" /\ status' # kPlayStatusLoading]_vars

\* the decode step is about to pull a packet and the stream has ended
AtEndOfStream ==
    /\ pc = "decode"
    /\ status = kPlayStatusPlay
    /\ decoder.live
    /\ decoder.pos >= TrackLen

\* C10: at the end of the stream while Playing, status becomes Stopped and the
\* worker keeps running.
C10_EndOfStreamStops ==
    [][AtEndOfStream /\ pc' # pc
         => status' = kPlayStatusStop /\ pc' # "panicked"]_vars

\* C11: a Stop processed by a fresh Player, as its first command with no Load
\* before it, does not crash the worker and leaves status equal to Stopped.
C11_StopWhenFreshKeepsStopped ==
    processed = 1 /\ cur.op = "Stop"
        => pc # "panicked" /\ status = kPlayStatusStop

\* the worker has processed exactly Load(autoplay), Pause: the statuses seen
\* are those of a completed autoplay Load followed by a Pause, and the session
\* of the Load is still there (a Stop would have dropped it)
C12_AfterLoadPause ==
    /\ processed = 2
    /\ cur.op = "Pause"
    /\ decoder.live
    /\ statusHist = <<kPlayStatusStop, kPlayStatusLoading, kPlayStatusPlay, kPlayStatusPause>>

\* the worker has processed exactly Load(autoplay), Pause, Play
C12_AfterLoadPausePlay ==
    /\ processed = 3
    /\ cur.op = "Play"
    /\ decoder.live
    /\ statusHist = <<kPlayStatusStop, kPlayStatusLoading, kPlayStatusPlay, kPlayStatusPause,
                      kPlayStatusPlay>>

\* C12 as stated: after [Load(A, autoplay=true, 0), Pause, Play] from the initial
\* state the device stop() and the device start() have each been invoked once
\* and the status is Playing.
C12_StopAndStartEachOnce ==
    C12_AfterLoadPausePlay
        => stopCalls = 1 /\ startCalls = 1 /\ status = kPlayStatusPlay

\* a Pause is received while status is Playing
PauseFromPlaying ==
    processed' = processed + 1 /\ cur'.op = "Pause" /\ status = kPlayStatusPlay

\* a Play is received while status is Paused
PlayFromPaused ==
    processed' = processed + 1 /\ cur'.op = "Play" /\ status = kPlayStatusPause

\* C12: after [Load(A, autoplay=true, s), Pause] the device has been started
\* once (by the Load) and stopped once (by the Pause); after the Play that
\* follows it has been stopped once and started twice and the status is Playing.
\* In general a Pause from Playing invokes stop() exactly once and no start(),
\* and a Play from Paused invokes start() exactly once and no stop().
C12_PauseStopsPlayStarts ==
    /\ [](C12_AfterLoadPause
            => stopCalls = 1 /\ startCalls = 1 /\ ~streamActive
               /\ status = kPlayStatusPause)
    /\ [](C12_AfterLoadPausePlay
            => stopCalls = 1 /\ startCalls = 2 /\ streamActive
               /\ status = kPlayStatusPlay)
    /\ [][PauseFromPlaying
            => stopCalls' = stopCalls + 1 /\ startCalls' = startCalls
               /\ ~streamActive']_vars
    /\ [][PlayFromPaused
            => startCalls' = startCalls + 1 /\ stopCalls' = stopCalls
               /\ streamActive']_vars

\* [Load(autoplay), Pause, Play] has been processed: the device runs again,
\* started by the Load and by the Play, stopped by the Pause
C12_Resumed ==
    C12_AfterLoadPausePlay /\ streamActive /\ startCalls = 2 /\ stopCalls = 1

\* a Seek is received while a decoder session exists
SeekWithSession ==
    processed' = processed + 1 /\ cur'.op = "Seek" /\ decoder.live

\* the worker has processed exactly Load(autoplay=false), Seek
C13_AfterLoadSeek ==
    /\ processed = 2
    /\ cur.op = "Seek"
    /\ statusHist = <<kPlayStatusStop, kPlayStatusLoading, kPlayStatusPause>>

\* C13: a Seek(ms) processed while a decoder session exists leaves status
\* unchanged and calls neither start() nor stop(); when the seek returns, the
\* decoder is where time_seek(ms) put it, position_ms is the decoder's position
\* after the seek and position_measured_at is the current time. So
\* [Load(A, autoplay=false, s), Seek(ms)] ends with status Paused, start() never
\* invoked and position_ms the decoder's position, ms for an exact decoder.
C13_SeekKeepsStatus ==
    /\ [][SeekWithSession
            => /\ status' = status
               /\ startCalls' = startCalls /\ stopCalls' = stopCalls
               /\ pc' # "panicked"
                    => /\ streamActive' = streamActive
                       /\ decoder'.pos \in time_seek(cur'.pos)
                       /\ position_ms' = time_tell(decoder')
                       /\ position_measured_at' = now]_vars
    /\ [](C13_AfterLoadSeek
            => /\ status = kPlayStatusPause
               /\ startCalls = 0
               /\ pc # "panicked"
                    => /\ position_ms = time_tell(decoder)
                       /\ decoder.pos = cur.pos => position_ms = cur.pos)

\* [Load(A, false, s), Seek(ms)] with ms > 0 on an exact decoder, at a later
\* time than the Load: Paused at ms, measured now, the device never started
C13_SoughtPaused ==
    /\ C13_AfterLoadSeek
    /\ pc = "decode"
    /\ cur.pos > 0
    /\ position_ms = cur.pos
    /\ position_measured_at = now
    /\ now > 0
    /\ status = kPlayStatusPause
    /\ startCalls = 0

\* C14: the worker holds the state mutex only while it reads or writes the
\* state record: no step of the worker makes a device call (start, stop,
\* write) or a decoder call (seek, time_tell, packet pull) with the guard held.
C14_NoCallUnderLock ==
    guarded = {}

\* a decoder session comes into being, or is replaced by another one
SessionAppears ==
    decoder'.live /\ (~decoder.live \/ decoder'.sid # decoder.sid)

\* a Stop is received
StopReceived ==
    processed' = processed + 1 /\ cur'.op = "Stop"

\* C15: while a decoder session exists the status is Loading, Playing or
\* Paused, never Stopped; a session comes into being only when a Load
\* completes, and processing a Stop destroys it, so a session that exists was
\* made by a Load completed since the last Stop.
C15_SessionImpliesLoaded ==
    /\ [](decoder.live
            => status \in {kPlayStatusLoading, kPlayStatusPlay, kPlayStatusPause})
    /\ [](status = kPlayStatusStop => ~decoder.live)
    /\ [][SessionAppears
            => pc = "loading" /\ pc' = "decode" /\ cur.op = "Load"]_vars
    /\ [][StopReceived => ~decoder'.live]_vars

\* a Stop has just been processed after an autoplay Load: the session of the
\* Load is gone
C15_SessionStopped ==
    /\ cur.op = "Stop"
    /\ pc = "decode"
    /\ processed = 2
    /\ ~decoder.live
    /\ statusHist = <<kPlayStatusStop, kPlayStatusLoading, kPlayStatusPlay, kPlayStatusPause>>

\* a Stop is received while status is Playing or Paused and a session exists
StopWithSession ==
    /\ StopReceived
    /\ decoder.live
    /\ status \in {kPlayStatusPlay, kPlayStatusPause}

\* a session exists and the status is Playing: the decode step writes packets
PlayingWithSession ==
    decoder.live /\ status = kPlayStatusPlay

\* the worker starts playing a session
PlayingBegins ==
    ~PlayingWithSession /\ PlayingWithSession'

\* an autoplay Load completes, or a Play is received while a session exists
AutoplayLoadOrPlayLoaded ==
    \/ pc = "loading" /\ cur.op = "Load" /\ cur.play
    \/ processed' = processed + 1 /\ cur'.op = "Play" /\ decoder.live

\* C16: a Stop processed while status is Playing or Paused with a decoder
\* session leaves status Paused, no session and the device stopped, and it
\* invokes stop() exactly when the status before it was Playing. Afterwards no
\* packet is written until a later autoplay Load or a Play on a loaded
\* session: a packet is written only while a session exists and status is
\* Playing, and that condition begins only with one of those two.
C16_StopLeavesPausedAndQuiet ==
    /\ [][StopWithSession
            => /\ status' = kPlayStatusPause
               /\ ~decoder'.live
               /\ ~streamActive'
               /\ wrote' = 0
               /\ startCalls' = startCalls
               /\ stopCalls' = stopCalls + (IF status = kPlayStatusPlay THEN 1 ELSE 0)]_vars
    /\ [](wrote # 0 /\ pc # "panicked" => PlayingWithSession)
    /\ [](~decoder.live /\ pc # "panicked" => wrote = 0)
    /\ [][PlayingBegins => AutoplayLoadOrPlayLoaded]_vars

\* a Stop has just been processed after a Load without autoplay: Paused, no
\* session, and stop() was not invoked
C16_StoppedFromPaused ==
    /\ cur.op = "Stop"
    /\ pc = "decode"
    /\ processed = 2
    /\ ~decoder.live
    /\ ~streamActive
    /\ stopCalls = 0
    /\ status = kPlayStatusPause
    /\ statusHist = <<kPlayStatusStop, kPlayStatusLoading, kPlayStatusPause>>

\* the channel changes by a send at its end, by the worker receiving its head,
\* or by the worker's panic dropping the Receiver
Enqueued ==
    \E cmd \in PlayerCommand : commands' = Append(commands, cmd)

Dequeued ==
    /\ commands # <<>>
    /\ commands' = Tail(commands)
    /\ cur' = Head(commands)
    /\ processed' = processed + 1
    /\ pc = "recv"

ReceiverDropped ==
    pc' = "panicked" /\ commands' = <<>>

\* the positions of the worker loop follow one another: one try_recv, the
\* arm of the command, one decode step, and again
NextInLoop ==
    \/ pc = "recv" /\ pc' \in {"decode", "loading", "panicked"}
    \/ pc = "loading" /\ pc' \in {"decode", "panicked"}
    \/ pc = "decode" /\ pc' \in {"recv", "panicked"}

\* the decode step of an iteration has run to its end
DecodeStepDone ==
    pc = "decode" /\ pc' = "recv"

\* what the decode step does: iff status is Playing it pulls one packet,
\* writes it unless the pull returned a gap, and refreshes the position
OnePacketIffPlaying ==
    IF status = kPlayStatusPlay
      THEN /\ decoder' = [decoder EXCEPT !.pos = decoder.pos + 1]
           /\ outcome' \in {"Ok", "OutputUnderflowed", "Hole"}
           /\ wrote' = (IF outcome' = "Hole" THEN 0 ELSE decoder.sid)
           /\ position_ms' = time_tell(decoder')
           /\ position_measured_at' = now
      ELSE /\ UNCHANGED <<decoder, position_ms, position_measured_at>>
           /\ wrote' = 0
           /\ outcome' = "none"

C18_GapAndUnderflowAbsorbed ==
    outcome \in {"Hole", "OutputUnderflowed"}
        => /\ pc = "recv"
           /\ panicCause = "none"
           /\ status = kPlayStatusPlay
           /\ decoder.live
           /\ outcome = "Hole" => wrote = 0
           /\ outcome = "OutputUnderflowed" => wrote = decoder.sid

\* the device write of a packet has underflowed; the decoder is past the
\* packet and the worker is back at try_recv
C18_Underflowed ==
    /\ outcome = "OutputUnderflowed"
    /\ status = kPlayStatusPlay
    /\ decoder.live
    /\ decoder.pos > 0
    /\ wrote = decoder.sid
    /\ pc = "recv"

\* C19: in every state the worker leaves between two of its critical sections
\* (every state an observer can read), as long as the worker has not crashed,
\* the output device is started if and only if the shared status is Playing.
C19_DeviceStartedIffPlaying ==
    pc # "panicked" => (streamActive <=> status = kPlayStatusPlay)

\* the device was started and a Pause has stopped it again
C19_PausedAndStopped ==
    /\ cur.op = "Pause"
    /\ pc # "panicked"
    /\ status = kPlayStatusPause
    /\ ~streamActive
    /\ startCalls >= 1
    /\ stopCalls >= 1

\* C20: Stopped is only the initial status. After the worker has processed a
\* Load, Play, Pause or Stop the status is not Stopped, and a status that is
\* not Stopped never becomes Stopped again, whatever commands or decoder
\* events follow.
C20_StoppedOnlyInitially ==
    /\ [](cur.op \in {"Load", "Play", "Pause", "Stop"} => status # kPlayStatusStop)
    /\ [][status # kPlayStatusStop => status' # kPlayStatusStop]_vars

\* the Player has played and a Stop has been processed after other
\* commands: the status is Paused, not Stopped
C20_StoppedAfterCommands ==
    /\ cur.op = "Stop"
    /\ processed >= 2
    /\ pc = "recv"
    /\ status = kPlayStatusPause
    /\ kPlayStatusPlay \in {statusHist[i] : i \in 1..Len(statusHist)}

====
